---- MODULE Spec2Model ----
\* Model of the cascadia result-polling server (src/server.go): the Samples
\* table, the HTTP handlers that list and register samples, and the
\* background goroutine that polls the portal for pending samples.
EXTENDS Integers, Sequences, FiniteSets, TLC

VARIABLES
    db,        \* rows of the Samples table, in rowid order
    clock,     \* last value returned by time.Now()
    alive,     \* FALSE once log.Fatalf has ended the process
    http,      \* the last response of the foreground handlers
    pc,        \* position of the periodicallyUpdate goroutine
    samples,   \* updatePending: the rows read by the pending query
    idx,       \* updatePending: index of the next sample of the range loop
    active,    \* number of updatePending calls that have not returned
    ticker,    \* TRUE once time.NewTicker has been called
    tickChan,  \* number of ticks buffered in the ticker's channel t.C
    fired,     \* ticks fired by the ticker since the last receive from t.C
    outcome,   \* what the last updateOne call logged
    num,       \* updateOne: res.RowsAffected(), NoUpdate when no UPDATE ran
    calls,     \* per sample of the current pass: updateOne and http.PostForm calls
    data,      \* parser input: an extracted cell sequence
    parsed,    \* parser output for data
    html,      \* getAllTDs: the token stream read and the error that ends it
    pos,       \* getAllTDs: number of tokens h.Next() has returned
    grabText,  \* getAllTDs: the capturing flag grabNextText
    tdData,    \* getAllTDs: the cells collected so far
    ret,       \* getAllTDs: what the call returned
    run,       \* number of the getAllTDs call on html
    firstRet,  \* what the first getAllTDs call on html returned
    roster,    \* identity resolution: the roster scanned
    holder,    \* identity resolution: the sample's name
    lookup     \* identity resolution: the date of birth and what follows

vars == <<db, clock, alive, http, pc, samples, idx, active, ticker, tickChan,
          fired, outcome, num, calls, data, parsed, html, pos, grabText,
          tdData, ret, run, firstRet, roster, holder, lookup>>

fgVars == <<db, clock, http>>
bgVars == <<pc, samples, idx, active, outcome, num, calls>>
tickVars == <<ticker, tickChan, fired>>
parseVars == <<data, parsed>>
extractVars == <<html, pos, grabText, tdData, ret, run, firstRet>>
rosterVars == <<roster, holder, lookup>>

-----------------------------------------------------------------------------
\* Bounds of the model.

MaxRows == 2     \* rows the Samples table may hold
MaxClock == 3    \* calls of time.Now()
MaxCells == 9    \* longest cell sequence given to the parser
MaxTokens == 4   \* longest token stream given to getAllTDs, the documented page apart
MaxRoster == 2   \* longest roster given to the roster scan

-----------------------------------------------------------------------------
\* Strings.

Space == {" ", "\t", "\n", "\r"}

RECURSIVE TrimLeft(_)
TrimLeft(s) ==
    IF Len(s) > 0 /\ SubSeq(s, 1, 1) \in Space
    THEN TrimLeft(SubSeq(s, 2, Len(s)))
    ELSE s

RECURSIVE TrimRight(_)
TrimRight(s) ==
    IF Len(s) > 0 /\ SubSeq(s, Len(s), Len(s)) \in Space
    THEN TrimRight(SubSeq(s, 1, Len(s) - 1))
    ELSE s

\* strings.TrimSpace
TrimSpace(s) == TrimRight(TrimLeft(s))

UpperAZ == "ABCDEFGHIJKLMNOPQRSTUVWXYZ"
LowerAZ == "abcdefghijklmnopqrstuvwxyz"

UpperLetters == {SubSeq(UpperAZ, k, k) : k \in 1..Len(UpperAZ)}

LowerOf ==
    [c \in UpperLetters |->
        LET k == CHOOSE j \in 1..Len(UpperAZ) : SubSeq(UpperAZ, j, j) = c
        IN  SubSeq(LowerAZ, k, k)]

LowerChar(c) == IF c \in UpperLetters THEN LowerOf[c] ELSE c

\* s from its k-th character on, in lower case.
RECURSIVE LowerFrom(_, _)
LowerFrom(s, k) ==
    IF k > Len(s) THEN ""
    ELSE LowerChar(SubSeq(s, k, k)) \o LowerFrom(s, k + 1)

ToLower(s) == LowerFrom(s, 1)

Contains(s, p) ==
    \E k \in 1..(Len(s) - Len(p) + 1) : SubSeq(s, k, k + Len(p) - 1) = p

\* SQLite's  results LIKE '%pending%'  (LIKE ignores ASCII case).
LikePending(results) == Contains(ToLower(results), "pending")

-----------------------------------------------------------------------------
\* Configuration (config.json) and request inputs.

\* s.config.People
People ==
    << [Name |-> "alice", DateOfBirth |-> "01/02/1990"],
       [Name |-> "alice", DateOfBirth |-> "03/04/1991"] >>

\* Requests to /new: the method, whether r.ParseForm succeeds, and the form
\* fields person and barcode.
NewSampleRequest(method, formOk, person, barcode) ==
    [method |-> method, formOk |-> formOk, person |-> person, barcode |-> barcode]

Paths == {"/", "/favicon.ico"}
FormNames == {"alice", "carol"}
FormBarcodes == {"b1", "b2"}

NewSampleRequests ==
    {NewSampleRequest("POST", TRUE, n, b) : n \in FormNames, b \in FormBarcodes}
        \cup {NewSampleRequest("GET", TRUE, "alice", "b1"),
              NewSampleRequest("POST", FALSE, "", ""),
              NewSampleRequest("POST", TRUE, "", "b1"),
              NewSampleRequest("POST", TRUE, "alice", "")}

\* sql.NullString
Null == [String |-> "", Valid |-> FALSE]
NullString(s) == [String |-> s, Valid |-> TRUE]

-----------------------------------------------------------------------------
\* The Samples table.

\* INSERT INTO Samples VALUES (?, ?, 'pending', ?, ?, NULL)
Insert(rows, name, barcode, t) ==
    Append(rows, [rowid |-> Len(rows) + 1,
                  name |-> name,
                  barcode |-> barcode,
                  results |-> NullString("pending"),
                  created_time |-> t,
                  updated_time |-> t,
                  sample_date |-> Null])

Matching_all(rows, barcode) == 1..Len(rows)

\* The rows an  UPDATE ... WHERE barcode = ?  matches.
Matching(rows, barcode) == {i \in 1..Len(rows) : rows[i].barcode = barcode}

Update_created(rows, results, t, date, barcode) ==
    [i \in 1..Len(rows) |->
        IF rows[i].barcode = barcode
        THEN [rows[i] EXCEPT !.results = NullString(results),
                             !.created_time = t,
                             !.updated_time = t,
                             !.sample_date = NullString(date)]
        ELSE rows[i]]

Update_nodate(rows, results, t, date, barcode) ==
    [i \in 1..Len(rows) |->
        IF rows[i].barcode = barcode
        THEN [rows[i] EXCEPT !.results = NullString(results),
                             !.updated_time = t]
        ELSE rows[i]]

\* UPDATE Samples SET results = ?, updated_time = ?, sample_date = ?
\*   WHERE barcode = ?
Update(rows, results, t, date, barcode) ==
    [i \in 1..Len(rows) |->
        IF i \in Matching(rows, barcode)
        THEN [rows[i] EXCEPT !.results = NullString(results),
                             !.updated_time = t,
                             !.sample_date = NullString(date)]
        ELSE rows[i]]

\* The value of num in a call of updateOne that reaches no UPDATE.
NoUpdate == -1

\* res.RowsAffected()
RowsAffected(rows, barcode) == Cardinality(Matching(rows, barcode))

\* SELECT * FROM Samples WHERE results LIKE '%pending%'
RECURSIVE SelectPending(_)
SelectPending(rows) ==
    IF rows = <<>> THEN <<>>
    ELSE IF Head(rows).results.Valid /\ LikePending(Head(rows).results.String)
         THEN <<Head(rows)>> \o SelectPending(Tail(rows))
         ELSE SelectPending(Tail(rows))

\* SELECT * FROM Samples ORDER BY updated_time DESC LIMIT ?
RECURSIVE OrderByUpdatedDesc(_)
OrderByUpdatedDesc(rows) ==
    IF rows = <<>> THEN <<>>
    ELSE LET k == CHOOSE i \in 1..Len(rows) :
                     \A j \in 1..Len(rows) :
                         \/ rows[i].updated_time > rows[j].updated_time
                         \/ rows[i].updated_time = rows[j].updated_time /\ i <= j
             rest == [j \in 1..(Len(rows) - 1) |->
                         IF j < k THEN rows[j] ELSE rows[j + 1]]
         IN  <<rows[k]>> \o OrderByUpdatedDesc(rest)

ListLimit == 10

GetSamples(rows, limit) ==
    LET sorted == OrderByUpdatedDesc(rows)
    IN  SubSeq(sorted, 1, IF Len(sorted) < limit THEN Len(sorted) ELSE limit)

-----------------------------------------------------------------------------
\* The HTML table extractor.  A portal response body is given as the token
\* stream html.NewTokenizer produces for it, and the error h.Err() reports
\* when the stream ends.

StartTag(name) == [Type |-> "StartTag", Data |-> name]
EndTag(name) == [Type |-> "EndTag", Data |-> name]
Text(s) == [Type |-> "Text", Data |-> s]

RECURSIVE getAllTDsLoop_lenient(_, _, _, _)
getAllTDsLoop_lenient(tokens, tokErr, cells, grabNextText) ==
    IF tokens = <<>>
    THEN [data |-> cells, err |-> "nil"]
    ELSE LET token == Head(tokens)
             grab == IF token.Type = "StartTag" /\ token.Data = "td"
                     THEN TRUE
                     ELSE grabNextText
         IN  IF token.Type = "Text" /\ grab /\ TrimSpace(token.Data) # ""
             THEN getAllTDsLoop_lenient(Tail(tokens), tokErr,
                                        Append(cells, TrimSpace(token.Data)),
                                        FALSE)
             ELSE getAllTDsLoop_lenient(Tail(tokens), tokErr, cells, grab)

RECURSIVE getAllTDsLoop(_, _, _, _)
getAllTDsLoop(tokens, tokErr, cells, grabNextText) ==
    IF tokens = <<>>
    THEN IF tokErr = "EOF"
         THEN [data |-> cells, err |-> "nil"]
         ELSE [data |-> <<>>, err |-> tokErr]
    ELSE LET token == Head(tokens)
             grab == IF token.Type = "StartTag" /\ token.Data = "td"
                     THEN TRUE
                     ELSE grabNextText
         IN  IF token.Type = "Text" /\ grab
             THEN LET d == TrimSpace(token.Data)
                  IN  IF d = ""
                      THEN getAllTDsLoop(Tail(tokens), tokErr, cells, grab)
                      ELSE getAllTDsLoop(Tail(tokens), tokErr,
                                         Append(cells, d), FALSE)
             ELSE getAllTDsLoop(Tail(tokens), tokErr, cells, grab)

getAllTDs(tokens, tokErr) == getAllTDsLoop(tokens, tokErr, <<>>, FALSE)

-----------------------------------------------------------------------------
\* The positional parser inlined in updateOne.

Classify_swapped(cells) ==
    IF Len(cells) < 4 \/ (Len(cells) >= 5 /\ Len(cells) % 2 # 1)
    THEN "Unrecognized"
    ELSE IF Len(cells) = 0 THEN "NotYetAvailable"
    ELSE "Resolved"

Classify_noparity(cells) ==
    IF Len(cells) = 0 THEN "NotYetAvailable"
    ELSE IF Len(cells) < 4 THEN "Unrecognized"
    ELSE "Resolved"

Classify_short(cells) ==
    IF Len(cells) = 0 THEN "NotYetAvailable"
    ELSE IF Len(cells) < 3 \/ (Len(cells) >= 5 /\ Len(cells) % 2 # 1)
    THEN "Unrecognized"
    ELSE "Resolved"

\* if len(data) == 0 {...}; if len(data) < 4 || (len(data) >= 5 && len(data)%2 != 1) {...}
Classify(cells) ==
    IF Len(cells) = 0 THEN "NotYetAvailable"
    ELSE IF Len(cells) < 4 \/ (Len(cells) >= 5 /\ Len(cells) % 2 # 1)
    THEN "Unrecognized"
    ELSE "Resolved"

\* data[k] of the Go slice (indexed from 0).
At(cells, k) == cells[k + 1]

RECURSIVE RenderRows_late(_, _, _)
RenderRows_late(cells, i, results) ==
    IF i < Len(cells) - 1
    THEN RenderRows_late(cells, i + 2,
             results \o " | " \o At(cells, i) \o " " \o At(cells, i + 1))
    ELSE results

\* for i := 3; i < len(data)-3; i = i + 2 { results = results + " | " + ... }
RECURSIVE RenderRows(_, _, _)
RenderRows(cells, i, results) ==
    IF i < Len(cells) - 3
    THEN RenderRows(cells, i + 2,
             results \o " | " \o At(cells, i) \o " " \o At(cells, i + 1))
    ELSE results

\* results := data[1] + " " + data[2], then the additional rows.
Render(cells) == RenderRows(cells, 3, At(cells, 1) \o " " \o At(cells, 2))

\* data[len(data)-2]
SampleDate(cells) == At(cells, Len(cells) - 2)

\* The indices of data the rendering reads: data[1] and data[2]; data[i] and
\* data[i+1] for i = 3, 5, ... while i < len(data)-3; data[len(data)-2].
HeaderReads == {1, 2}

RECURSIVE LoopReads(_, _)
LoopReads(n, i) ==
    IF i < n - 3 THEN {i, i + 1} \cup LoopReads(n, i + 2) ELSE {}

DateRead(n) == n - 2

NoParse == [class |-> "none", results |-> "", sample_date |-> ""]

ParseCells(cells) ==
    LET class == Classify(cells)
    IN  IF class = "Resolved"
        THEN [class |-> class, results |-> Render(cells),
              sample_date |-> SampleDate(cells)]
        ELSE [class |-> class, results |-> "", sample_date |-> ""]

-----------------------------------------------------------------------------
\* Identity resolution: the roster scan at the head of updateOne.

RECURSIVE LookupDob(_, _)
LookupDob(people, name) ==
    IF people = <<>> THEN ""
    ELSE IF Head(people).Name = name THEN Head(people).DateOfBirth
    ELSE LookupDob(Tail(people), name)

-----------------------------------------------------------------------------
\* Portal responses: what http.PostForm returns for one lookup.

Td(s) == <<StartTag("td"), Text(s), EndTag("td")>>

RECURSIVE Tds(_)
Tds(cells) == IF cells = <<>> THEN <<>> ELSE Td(Head(cells)) \o Tds(Tail(cells))

Table(cells) ==
    <<StartTag("table"), StartTag("tr")>> \o Tds(cells)
        \o <<EndTag("tr"), EndTag("table")>>

Body(tokens, tokErr) == [postErr |-> FALSE, tokens |-> tokens, tokErr |-> tokErr]

Cells2 == <<"s", "H1">>
Cells4 == <<"s", "Result", "Pending", "2024-01-01">>
Cells6 == <<"s", "H1", "H2", "R1a", "DATE", "last">>
Cells7 == <<"s", "H1", "H2", "R1a", "R1b", "DATE", "last">>

\* The responses the portal may give, numbered.
Responses ==
    << [postErr |-> TRUE, tokens |-> <<>>, tokErr |-> "EOF"],
       Body(<<>>, "EOF"),
       Body(<<StartTag("p"), Text("No results found"), EndTag("p"),
              StartTag("td"), Text(" \n"), EndTag("td")>>, "EOF"),
       Body(Table(Cells4), "read error"),
       Body(Table(Cells2), "EOF"),
       Body(Table(Cells4), "EOF"),
       Body(Table(Cells6), "EOF"),
       Body(Table(Cells7), "EOF") >>

ResponseIds == 1..Len(Responses)

\* data, err := getAllTDs(resp.Body), for each response.
Extracted ==
    [k \in ResponseIds |-> getAllTDs(Responses[k].tokens, Responses[k].tokErr)]

\* The parse of the cells of each response.
Parsed == [k \in ResponseIds |-> ParseCells(Extracted[k].data)]

-----------------------------------------------------------------------------
\* Foreground: the HTTP handlers.

\* A response: its status code (the page handleIndex renders from
\* GetSamples is not kept).
Reply(code, rows) == code

\* handleIndex; getOk is whether the SELECT of GetSamples succeeds.
HandleIndex(path, getOk) ==
    /\ alive
    /\ http' = IF path # "/" THEN Reply(404, <<>>)
               ELSE IF ~getOk THEN Reply(500, <<>>)
               ELSE Reply(200, GetSamples(db, ListLimit))
    /\ UNCHANGED <<db, clock, alive>>
    /\ UNCHANGED <<bgVars, tickVars, parseVars, extractVars, rosterVars>>

\* handleNewSample and AddSample; execOk is whether the INSERT succeeds.
HandleNewSample(req, execOk) ==
    /\ alive
    /\ IF req.method # "POST"
       THEN http' = Reply(404, <<>>) /\ UNCHANGED <<db, clock>>
       ELSE IF ~req.formOk \/ req.person = "" \/ req.barcode = ""
       THEN http' = Reply(400, <<>>) /\ UNCHANGED <<db, clock>>
       ELSE /\ clock < MaxClock
            /\ Len(db) < MaxRows
            /\ clock' = clock + 1
            /\ IF execOk
               THEN /\ db' = Insert(db, req.person, req.barcode, clock')
                    /\ http' = Reply(303, <<>>)
               ELSE db' = db /\ http' = Reply(500, <<>>)
    /\ UNCHANGED alive
    /\ UNCHANGED <<bgVars, tickVars, parseVars, extractVars, rosterVars>>

-----------------------------------------------------------------------------
\* Background: periodicallyUpdate, updatePending and updateOne.

\* time.NewTicker makes t.C a channel with room for one tick.
TickBuffer == 1

\* Ticks the ticker may fire between two receives: enough to overflow t.C.
MaxTicks == TickBuffer + 1

TickerSend_queue(n) == n + 1
\* The runtime's send on the ticker's channel: it holds TickBuffer ticks and
\* a tick that finds it full is dropped.
TickerSend(n) == IF n < TickBuffer THEN n + 1 ELSE n

\* The ticker fires.
Tick ==
    /\ alive
    /\ ticker
    /\ fired < MaxTicks
    /\ fired' = fired + 1
    /\ tickChan' = TickerSend(tickChan)
    /\ UNCHANGED <<ticker, alive>>
    /\ UNCHANGED <<fgVars, bgVars, parseVars, extractVars, rosterVars>>

\* The head of updatePending: the pending query and the scan of its rows.
UpdatePending(queryOk) ==
    /\ samples' = IF queryOk THEN SelectPending(db) ELSE <<>>
    /\ idx' = 1
    /\ calls' = [i \in 1..Len(samples') |-> [ran |-> 0, posted |-> 0]]
    /\ active' = active + 1
    /\ pc' = "loop"
    /\ UNCHANGED <<outcome, num>>

\* periodicallyUpdate's first call of updatePending.
FirstPass(queryOk) ==
    /\ alive
    /\ pc = "start"
    /\ UpdatePending(queryOk)
    /\ UNCHANGED <<alive, fgVars, tickVars, parseVars, extractVars, rosterVars>>

CanReceive_any(p) == p \in {"wait", "loop"}
\* The goroutine is at  for range t.C.
CanReceive(p) == p = "wait"

\* A tick is received from t.C and the loop body calls updatePending.
TickPass(queryOk) ==
    /\ alive
    /\ CanReceive(pc)
    /\ tickChan > 0
    /\ tickChan' = tickChan - 1
    /\ fired' = 0
    /\ UpdatePending(queryOk)
    /\ UNCHANGED <<ticker, alive, fgVars, parseVars, extractVars, rosterVars>>

\* updatePending returns; after the first pass the ticker is created.
PassReturn ==
    /\ alive
    /\ pc = "loop"
    /\ idx > Len(samples)
    /\ pc' = "wait"
    /\ active' = active - 1
    /\ ticker' = TRUE
    /\ UNCHANGED <<samples, idx, outcome, num, calls>>
    /\ UNCHANGED <<tickChan, fired, alive, fgVars, parseVars, extractVars, rosterVars>>

Fatal_never(n) == FALSE
\* if num, _ := res.RowsAffected(); num != 1 { log.Fatalf(...) }
Fatal(n) == n # 1

NextIndex_skip(i) == i + 2
\* The range loop of updatePending moves to the next sample.
NextIndex(i) == i + 1

\* updateOne has run for sample i, with posted calls of http.PostForm.
Called(c, i, posted) ==
    [c EXCEPT ![i] = [ran |-> @.ran + 1, posted |-> @.posted + posted]]

\* A return of updateOne without a write.
Skip(what, posted) ==
    /\ outcome' = what
    /\ calls' = Called(calls, idx, posted)
    /\ idx' = NextIndex(idx)
    /\ num' = NoUpdate
    /\ UNCHANGED <<db, clock, alive>>

\* One iteration of the range loop: updateOne(samples[idx]).  k numbers the
\* portal's response and execOk is whether the UPDATE succeeds.
UpdateOne(k, execOk) ==
    /\ alive
    /\ pc = "loop"
    /\ idx <= Len(samples)
    /\ LET smpl == samples[idx]
           dob == LookupDob(roster, smpl.name)
           r == Responses[k]
           tds == Extracted[k]
           p == Parsed[k]
       IN  IF dob = "" THEN Skip("NoMatch", 0)
           ELSE IF r.postErr THEN Skip("NetworkError", 1)
           ELSE IF tds.err # "nil" THEN Skip("ScrapeError", 1)
           ELSE IF p.class = "NotYetAvailable" THEN Skip("NotYetAvailable", 1)
           ELSE IF p.class = "Unrecognized" THEN Skip("Unrecognized", 1)
           ELSE /\ clock < MaxClock
                /\ clock' = clock + 1
                /\ calls' = Called(calls, idx, 1)
                /\ IF ~execOk
                   THEN /\ outcome' = "SaveError"
                        /\ idx' = NextIndex(idx)
                        /\ num' = NoUpdate
                        /\ UNCHANGED <<db, alive>>
                   ELSE /\ db' = Update(db, p.results, clock', p.sample_date,
                                        smpl.barcode)
                        /\ num' = RowsAffected(db, smpl.barcode)
                        /\ IF Fatal(num')
                           THEN outcome' = "Fatal" /\ alive' = FALSE /\ idx' = idx
                           ELSE outcome' = "Committed" /\ alive' = alive
                                    /\ idx' = NextIndex(idx)
    /\ UNCHANGED <<pc, samples, active, http>>
    /\ UNCHANGED <<tickVars, parseVars, extractVars, rosterVars>>

-----------------------------------------------------------------------------
\* The parts of the state when nothing has run in them.

\* getAllTDs has not returned.
NoReturn == [data |-> <<>>, err |-> "running"]

\* The roster scan has not run.
NoLookup == [dob |-> "", next |-> "none"]

\* The server before main has started anything, and the parser unused.
ServerIdle ==
    /\ db = <<>>
    /\ clock = 0
    /\ alive = TRUE
    /\ http = Reply(0, <<>>)
    /\ pc = "start"
    /\ samples = <<>>
    /\ idx = 1
    /\ active = 0
    /\ ticker = FALSE
    /\ tickChan = 0
    /\ fired = 0
    /\ outcome = "none"
    /\ num = NoUpdate
    /\ calls = <<>>

ParserIdle ==
    /\ data = <<>>
    /\ parsed = NoParse

ExtractorIdle ==
    /\ html = [tokens |-> <<>>, tokErr |-> "EOF"]
    /\ pos = 0
    /\ grabText = FALSE
    /\ tdData = <<>>
    /\ ret = NoReturn
    /\ run = 1
    /\ firstRet = NoReturn

ResolverIdle ==
    /\ roster = People
    /\ holder = ""
    /\ lookup = NoLookup

-----------------------------------------------------------------------------
\* The specification of the server.

Init ==
    /\ db = <<>>
    /\ clock = 0
    /\ alive = TRUE
    /\ http = Reply(0, <<>>)
    /\ pc = "start"
    /\ samples = <<>>
    /\ idx = 1
    /\ active = 0
    /\ ticker = FALSE
    /\ tickChan = 0
    /\ fired = 0
    /\ outcome = "none"
    /\ num = NoUpdate
    /\ calls = <<>>
    /\ data = <<>>
    /\ parsed = NoParse
    /\ ExtractorIdle
    /\ ResolverIdle

Next ==
    \/ \E path \in Paths, getOk \in BOOLEAN : HandleIndex(path, getOk)
    \/ \E req \in NewSampleRequests, execOk \in BOOLEAN :
            HandleNewSample(req, execOk)
    \/ Tick
    \/ \E queryOk \in BOOLEAN : FirstPass(queryOk)
    \/ \E queryOk \in BOOLEAN : TickPass(queryOk)
    \/ PassReturn
    \/ \E k \in ResponseIds, execOk \in BOOLEAN : UpdateOne(k, execOk)

Spec == Init /\ [][Next]_vars

-----------------------------------------------------------------------------
\* The server under fair scheduling, with a config.json whose roster may
\* hold an entry without date_of_birth (json.Decode leaves it "").

PeopleNoDob == <<[Name |-> "carol", DateOfBirth |-> ""]>> \o People

InitLive ==
    /\ ServerIdle
    /\ ParserIdle
    /\ ExtractorIdle
    /\ roster \in {People, PeopleNoDob}
    /\ holder = ""
    /\ lookup = NoLookup

\* The responses whose cells the parser renders.
ResolvedResponses == {k \in ResponseIds : Parsed[k].class = "Resolved"}

\* updateOne runs for the sample of rowid i, the portal answers with a
\* page the parser renders and the UPDATE, if reached, succeeds.
ResolvedReply(i) ==
    /\ pc = "loop"
    /\ idx <= Len(samples)
    /\ samples[idx].rowid = i
    /\ \E k \in ResolvedResponses : UpdateOne(k, TRUE)

\* The ticker keeps firing and the goroutine keeps running; the pending
\* query succeeds again and again; for each sample the portal again and
\* again answers with a page the parser renders and the UPDATE succeeds.
Fairness ==
    /\ WF_vars(Tick)
    /\ WF_vars(FirstPass(TRUE))
    /\ SF_vars(TickPass(TRUE))
    /\ WF_vars(PassReturn)
    /\ \A i \in 1..MaxRows : SF_vars(ResolvedReply(i))

SpecLive == InitLive /\ [][Next]_vars /\ Fairness

-----------------------------------------------------------------------------
\* The specification of the parser alone: every cell sequence of bounded
\* length over CellAlphabet, and the sequences of the documented examples.

CellAlphabet == {"H1", "pending"}

\* n cells, each a letter of its own.
Letters == "abcdefghijklmnopqrstuvwxyz"
Lettered(n) == [k \in 1..n |-> SubSeq(Letters, k, k)]

CellSeqs ==
    UNION {[1..n -> CellAlphabet] : n \in 0..MaxCells}
        \cup {Cells2, Cells4, Cells6, Cells7,
              <<"x", "HeaderA", "HeaderB", "2024-01-01">>}
        \cup {Lettered(n) : n \in 0..MaxCells}

InitParse ==
    /\ db = <<>>
    /\ clock = 0
    /\ alive = TRUE
    /\ http = Reply(0, <<>>)
    /\ pc = "start"
    /\ samples = <<>>
    /\ idx = 1
    /\ active = 0
    /\ ticker = FALSE
    /\ tickChan = 0
    /\ fired = 0
    /\ outcome = "none"
    /\ num = NoUpdate
    /\ calls = <<>>
    /\ data \in CellSeqs
    /\ parsed = NoParse
    /\ ExtractorIdle
    /\ ResolverIdle

\* The parser is applied to data.
Parse ==
    /\ parsed = NoParse
    /\ parsed' = ParseCells(data)
    /\ UNCHANGED <<data, alive, fgVars, bgVars, tickVars>>
    /\ UNCHANGED <<extractVars, rosterVars>>

NextParse == Parse

SpecParse == InitParse /\ [][NextParse]_vars

-----------------------------------------------------------------------------
\* The specification of getAllTDs alone, one h.Next() at a time: every token
\* stream of bounded length over TokenAlphabet and the documented page, each
\* ended by EOF or by another tokenizer error, read by two calls in turn.

TokenAlphabet ==
    {StartTag("td"), EndTag("td"), StartTag("b"),
     Text("a"), Text(" b "), Text(" ")}

DocumentedPage == Table(<<"a", "H1", "H2", "2024-01-01">>)

TokenStreams ==
    UNION {[1..n -> TokenAlphabet] : n \in 0..MaxTokens} \cup {DocumentedPage}

TokErrs == {"EOF", "read error"}

\* data := []string{}; grabNextText := false. prev is the flag as the
\* earlier call left it.
StartGrab_keep(prev) == prev

StartGrab(prev) == FALSE

\* if token.Type == html.StartTagToken && token.Data == "td" { grabNextText = true }
GrabOnTd(token, grab) ==
    IF token.Type = "StartTag" /\ token.Data = "td" THEN TRUE ELSE grab

\* if token.Type == html.TextToken && grabNextText { d := strings.TrimSpace(token.Data);
\* if len(d) == 0 { continue }; data = append(data, d); grabNextText = false }
Grabbed_keep(token, cells, grab) ==
    IF token.Type = "Text" /\ grab /\ TrimSpace(token.Data) # ""
    THEN [data |-> Append(cells, TrimSpace(token.Data)), grab |-> TRUE]
    ELSE [data |-> cells, grab |-> grab]

Grabbed(token, cells, grab) ==
    IF token.Type = "Text" /\ grab /\ TrimSpace(token.Data) # ""
    THEN [data |-> Append(cells, TrimSpace(token.Data)), grab |-> FALSE]
    ELSE [data |-> cells, grab |-> grab]

\* if tt == html.ErrorToken { if err == io.EOF { return data, nil }; return nil, err }
Returned(cells, tokErr) ==
    IF tokErr = "EOF" THEN [data |-> cells, err |-> "nil"]
    ELSE [data |-> <<>>, err |-> tokErr]

InitExtract ==
    /\ ServerIdle
    /\ ParserIdle
    /\ ResolverIdle
    /\ html \in [tokens : TokenStreams, tokErr : TokErrs]
    /\ pos = 0
    /\ grabText = StartGrab(FALSE)
    /\ tdData = <<>>
    /\ ret = NoReturn
    /\ run = 1
    /\ firstRet = NoReturn

\* One turn of the loop on a token that is not the error token.
NextToken ==
    /\ ret = NoReturn
    /\ pos < Len(html.tokens)
    /\ pos' = pos + 1
    /\ LET token == html.tokens[pos']
           g == Grabbed(token, tdData, GrabOnTd(token, grabText))
       IN  /\ tdData' = g.data
           /\ grabText' = g.grab
    /\ UNCHANGED <<html, ret, run, firstRet>>
    /\ UNCHANGED <<alive, fgVars, bgVars, tickVars, parseVars, rosterVars>>

\* The turn of the loop on the error token: getAllTDs returns.
ErrorToken ==
    /\ ret = NoReturn
    /\ pos = Len(html.tokens)
    /\ ret' = Returned(tdData, html.tokErr)
    /\ UNCHANGED <<html, pos, grabText, tdData, run, firstRet>>
    /\ UNCHANGED <<alive, fgVars, bgVars, tickVars, parseVars, rosterVars>>

\* getAllTDs is called once more on the same token stream.
CallAgain ==
    /\ ret # NoReturn
    /\ run = 1
    /\ run' = 2
    /\ firstRet' = ret
    /\ ret' = NoReturn
    /\ pos' = 0
    /\ tdData' = <<>>
    /\ grabText' = StartGrab(grabText)
    /\ UNCHANGED html
    /\ UNCHANGED <<alive, fgVars, bgVars, tickVars, parseVars, rosterVars>>

NextExtract == NextToken \/ ErrorToken \/ CallAgain

SpecExtract == InitExtract /\ [][NextExtract]_vars

-----------------------------------------------------------------------------
\* The specification of the head of updateOne alone: the roster scan and the
\* test of its result, for every roster of bounded length over RosterEntries
\* and every name.

RosterNames == {"alice", "bob"}

RosterEntries ==
    [Name : RosterNames, DateOfBirth : {"01/02/1990", "03/04/1991", ""}]

Rosters == UNION {[1..n -> RosterEntries] : n \in 0..MaxRoster}

HolderNames == RosterNames \cup {"carol"}

InitRoster ==
    /\ ServerIdle
    /\ ParserIdle
    /\ ExtractorIdle
    /\ roster \in Rosters
    /\ holder \in HolderNames
    /\ lookup = NoLookup

\* for _, p := range s.config.People {...}; if dob == "" { log; return }
ResolveIdentity ==
    /\ lookup = NoLookup
    /\ LET dob == LookupDob(roster, holder)
       IN  lookup' = [dob |-> dob,
                      next |-> IF dob = "" THEN "NoMatch" ELSE "PostForm"]
    /\ UNCHANGED <<roster, holder>>
    /\ UNCHANGED <<alive, fgVars, bgVars, tickVars, parseVars, extractVars>>

NextRoster == ResolveIdentity

SpecRoster == InitRoster /\ [][NextRoster]_vars

-----------------------------------------------------------------------------
\* Properties of the store and of the polling pass.

\* The rows whose results or sample_date a step changes.
Rewritten ==
    {i \in 1..Len(db) : \/ db'[i].results # db[i].results
                        \/ db'[i].sample_date # db[i].sample_date}

\* C1: a single result commit changes the results/sample_date of at most one
\* specimen record, also when records share a barcode and whether or not the
\* process terminates afterwards.
C1_AtMostOneRecordPerCommit == [][Cardinality(Rewritten) <= 1]_vars

\* A row that has left the pending state: its results are no longer the
\* sentinel written at registration.
Resolved(row) == row.results # NullString("pending")

\* C2: a specimen is committed at most once: once its row is resolved no
\* later step writes it again and no later pending query returns it.
C2_CommittedAtMostOnce ==
    [][\A i \in 1..Len(db) :
          Resolved(db[i]) =>
              /\ db'[i] = db[i]
              /\ samples' # samples =>
                    \A j \in 1..Len(samples') : samples'[j].rowid # i]_vars

\* C3: when a commit reports an affected-row count other than 1 the process
\* terminates, and a terminated process takes no further step: no specimen
\* is processed, no pass starts, no request is served.
C3_FatalTerminates ==
    /\ [][/\ alive
          /\ num' # NoUpdate /\ num' # 1 => ~alive' /\ outcome' = "Fatal"
          /\ ~alive' => num' # NoUpdate /\ num' # 1]_vars
    /\ [](~alive => ~ENABLED Next)

C3_Witness ==
    /\ ~alive
    /\ outcome = "Fatal"
    /\ num = 2
    /\ pc = "loop"
    /\ idx < Len(samples)

\* The step is a call of updateOne: only updateOne counts a call for the
\* current sample.
UpdateOneStep == pc = "loop" /\ calls' # calls /\ samples' = samples

\* The roster scan finds a date of birth for the name: its first entry of
\* that name has a non-empty one.
HasDob(name) ==
    \E k \in 1..Len(roster) :
        /\ roster[k].Name = name
        /\ roster[k].DateOfBirth # ""
        /\ \A j \in 1..(k - 1) : roster[j].Name # name

InRoster(name) == \E k \in 1..Len(roster) : roster[k].Name = name

\* The responses that give no stored result whoever the holder is: a network
\* error, a tokenizer error, no cells, or a cell count the parser rejects.
SoftResponses ==
    {k \in ResponseIds :
        \/ Responses[k].postErr
        \/ Responses[k].tokErr # "EOF"
        \/ LET n == Len(Extracted[k].data)
           IN  n < 4 \/ (n >= 5 /\ n % 2 = 0)}

\* Response k is a soft failure for sample smpl.
SoftFailure(smpl, k) == ~InRoster(smpl.name) \/ k \in SoftResponses

SoftOutcomes ==
    {"NoMatch", "NetworkError", "ScrapeError", "NotYetAvailable", "Unrecognized"}

\* The store is as it was, the current sample's row is as the pass read it
\* and pending, and the loop has moved to the next sample.
Contained ==
    /\ db' = db
    /\ db'[samples[idx].rowid] = samples[idx]
    /\ LikePending(db'[samples[idx].rowid].results.String)
    /\ outcome' \in SoftOutcomes
    /\ alive'
    /\ pc' = "loop"
    /\ samples' = samples
    /\ idx' = idx + 1

\* C4: a soft failure on one specimen leaves the store as it was, the
\* specimen's record as the pass read it and still pending, and the pass goes
\* on to the next specimen of its list.  (Every step is contained unless it
\* is an updateOne step that no soft failure can take.)
C4_SoftFailureContained ==
    [][\/ ~UpdateOneStep
       \/ Contained
       \/ ~\E k \in ResponseIds, execOk \in BOOLEAN :
             SoftFailure(samples[idx], k) /\ UpdateOne(k, execOk)]_vars

C4_Witness ==
    /\ alive
    /\ pc = "loop"
    /\ outcome \in SoftOutcomes
    /\ Len(samples) = 2
    /\ idx = 2
    /\ db[samples[1].rowid] = samples[1]

\* The responses whose body the tokenizer reads to the end, and those whose
\* reading fails with another error.
EofResponses ==
    {k \in ResponseIds : ~Responses[k].postErr /\ Responses[k].tokErr = "EOF"}

ErrResponses ==
    {k \in ResponseIds : ~Responses[k].postErr /\ Responses[k].tokErr # "EOF"}

\* updateOne returned after getAllTDs without writing to the store.
ScrapeSkipped ==
    /\ outcome' = "ScrapeError"
    /\ db' = db
    /\ clock' = clock
    /\ num' = NoUpdate
    /\ alive'

\* C15: when the tokenizer ends with end-of-stream getAllTDs returns the
\* cells collected, without error; when it ends with any other error
\* getAllTDs returns that error and no cells, the ones collected so far
\* being dropped, and updateOne then writes nothing to the store.
C15_ScrapeError ==
    /\ [](\A k \in EofResponses : Extracted[k].err = "nil")
    /\ [](\A k \in ErrResponses :
            /\ Extracted[k] = [data |-> <<>>, err |-> Responses[k].tokErr]
            /\ \E j \in EofResponses :
                   /\ Responses[j].tokens = Responses[k].tokens
                   /\ Extracted[j].data = Cells4)
    /\ [][\/ ~UpdateOneStep
          \/ ScrapeSkipped
          \/ ~\E k \in ErrResponses, execOk \in BOOLEAN :
                HasDob(samples[idx].name) /\ UpdateOne(k, execOk)]_vars

\* updateOne has just returned on a scrape error for a holder of the
\* roster, after one portal call; the record is still pending.
C15_Witness ==
    /\ alive
    /\ pc = "loop"
    /\ outcome = "ScrapeError"
    /\ idx = 2
    /\ calls[1] = [ran |-> 1, posted |-> 1]
    /\ db[samples[1].rowid] = samples[1]
    /\ db[samples[1].rowid].results = NullString("pending")

\* The step is an updateOne whose UPDATE was executed.
CommitStep == UpdateOneStep /\ outcome' \in {"Committed", "Fatal"}

\* Row i after the step holds the result text and the sample date of one
\* rendered response, and the time read for this UPDATE.
WrittenTogether(i) ==
    /\ db'[i].updated_time = clock'
    /\ clock' = clock + 1
    /\ \E k \in ResponseIds :
           /\ Parsed[k].class = "Resolved"
           /\ db'[i].results = NullString(Parsed[k].results)
           /\ db'[i].sample_date = NullString(Parsed[k].sample_date)

\* C17: a commit writes results, updated_time and sample_date together and
\* nothing else: name, barcode and created_time (and the rowid) of the
\* committed record and every field of every record with another barcode
\* are unchanged; no other step of the pass changes a stored record.
C17_CommitFrame ==
    /\ [][CommitStep =>
            /\ Len(db') = Len(db)
            /\ \A i \in 1..Len(db) :
                   IF db[i].barcode = samples[idx].barcode
                   THEN /\ WrittenTogether(i)
                        /\ db'[i].name = db[i].name
                        /\ db'[i].barcode = db[i].barcode
                        /\ db'[i].created_time = db[i].created_time
                        /\ db'[i].rowid = db[i].rowid
                   ELSE db'[i] = db[i]]_vars
    /\ [][(\E i \in 1..Len(db) : db'[i] # db[i]) => CommitStep]_vars

\* A record has just been committed some time after its registration,
\* while a record with another barcode is still as registered.
C17_Witness ==
    /\ outcome = "Committed"
    /\ Len(db) = 2
    /\ db[1].barcode # db[2].barcode
    /\ db[2].results # NullString("pending")
    /\ db[2].created_time < db[2].updated_time
    /\ db[2].updated_time = clock
    /\ db[1].results = NullString("pending")
    /\ db[1].updated_time = db[1].created_time

\* C18: in every reachable state a record has a null sample_date if and
\* only if its results is exactly the pending sentinel: registration stores
\* the sentinel with a null date, and a commit stores a text that is not the
\* sentinel with a non-empty date.
C18_NullDateIffPending ==
    /\ \A i \in 1..Len(db) :
           /\ ~db[i].sample_date.Valid <=> db[i].results = NullString("pending")
           /\ db[i].sample_date.Valid => db[i].sample_date.String # ""
           /\ db[i].results.Valid
    /\ \A k \in ResolvedResponses :
           Parsed[k].results # "pending" /\ Parsed[k].sample_date # ""

\* The store holds a record as registered and a committed one.
C18_Witness ==
    /\ Len(db) = 2
    /\ db[1].results = NullString("pending")
    /\ db[1].sample_date = Null
    /\ db[2].results = NullString(Parsed[Len(Responses)].results)
    /\ db[2].sample_date = NullString("DATE")

-----------------------------------------------------------------------------
\* Properties of the parser (checked under SpecParse).

Even(n) == n % 2 = 0

\* C5 as stated: every length below 4, and every even length from 5 up, is
\* Unrecognized, and every other non-empty length is Resolved.
C5_UnrecognizedLengths ==
    parsed # NoParse =>
        LET n == Len(data)
        IN  /\ (n < 4 \/ (n >= 5 /\ Even(n))) => parsed.class = "Unrecognized"
            /\ (n = 4 \/ (n >= 5 /\ ~Even(n))) => parsed.class = "Resolved"

\* C5 amended: lengths 1 to 3, and every even length from 5 up, are
\* Unrecognized; length 0 is NotYetAvailable; length 4 and every odd length
\* from 5 up are Resolved.
C5_NonEmptyUnrecognizedLengths ==
    parsed # NoParse =>
        LET n == Len(data)
        IN  /\ (n \in 1..3 \/ (n >= 5 /\ Even(n))) <=> parsed.class = "Unrecognized"
            /\ n = 0 <=> parsed.class = "NotYetAvailable"
            /\ (n = 4 \/ (n >= 5 /\ ~Even(n))) <=> parsed.class = "Resolved"

C5_Witness ==
    /\ parsed.class = "Unrecognized"
    /\ Len(data) = 6

\* The additional rows of a cell sequence: each Go index i = 3, 5, 7, ...
\* below n-3 gives " | " + cells[i] + " " + cells[i+1].
RowStarts(cells) == {i \in 3..(Len(cells) - 4) : ~Even(i)}

RECURSIVE JoinRows(_, _)
JoinRows(cells, starts) ==
    IF starts = {} THEN ""
    ELSE LET i == CHOOSE m \in starts : \A k \in starts : m <= k
         IN  " | " \o cells[i + 1] \o " " \o cells[i + 2]
                 \o JoinRows(cells, starts \ {i})

\* C7: a Resolved sequence of length n renders as cells[1] + " " + cells[2]
\* followed by one " | "-separated pair per additional row, with sample date
\* cells[n-2]; length 4 has no separator, and the documented 7-cell example
\* gives "H1 H2 | R1a R1b" with date "DATE".
C7_Rendering ==
    parsed.class = "Resolved" =>
        /\ parsed.results
               = data[2] \o " " \o data[3] \o JoinRows(data, RowStarts(data))
        /\ parsed.sample_date = data[Len(data) - 1]
        /\ Len(data) = 4 => ~Contains(parsed.results, " | ")
        /\ data = <<"s", "H1", "H2", "R1a", "R1b", "DATE", "last">> =>
               /\ parsed.results = "H1 H2 | R1a R1b"
               /\ parsed.sample_date = "DATE"
        /\ data = <<"x", "HeaderA", "HeaderB", "2024-01-01">> =>
               parsed.results = "HeaderA HeaderB"

C7_Witness ==
    /\ Len(data) = 9
    /\ parsed.class = "Resolved"
    /\ parsed.results = "H1 H1 | H1 H1 | H1 H1"
    /\ parsed.sample_date = "pending"

-----------------------------------------------------------------------------
\* Properties of updateOne on an empty extraction.

\* No td start tag of the token stream is followed by a text that is
\* non-empty after trimming: the stream has no cell text.
NoCellText(tokens) ==
    ~\E i \in 1..Len(tokens), j \in 1..Len(tokens) :
        /\ i < j
        /\ tokens[i] = StartTag("td")
        /\ tokens[j].Type = "Text"
        /\ TrimSpace(tokens[j].Data) # ""

\* The responses that are received and tokenized and have no cell text.
EmptyResponses ==
    {k \in ResponseIds : /\ ~Responses[k].postErr
                         /\ Responses[k].tokErr = "EOF"
                         /\ NoCellText(Responses[k].tokens)}

\* C6: a response that yields no cells (an empty body included) is classified
\* NotYetAvailable and updateOne writes nothing: the specimen's results,
\* updated_time and sample_date stay as they were and it remains pending.
C6_EmptyIsNotYetAvailable ==
    [][UpdateOneStep /\ HasDob(samples[idx].name) =>
       \A k \in EmptyResponses, execOk \in BOOLEAN :
          UpdateOne(k, execOk)
          => /\ outcome' = "NotYetAvailable"
             /\ num' = NoUpdate
             /\ db' = db
             /\ db'[samples[idx].rowid] = samples[idx]
             /\ LikePending(db'[samples[idx].rowid].results.String)]_vars

C6_Witness ==
    /\ outcome = "NotYetAvailable"
    /\ idx > 1
    /\ calls[idx - 1].posted = 1
    /\ db[samples[idx - 1].rowid] = samples[idx - 1]
    /\ ~Resolved(db[samples[idx - 1].rowid])

-----------------------------------------------------------------------------
\* Properties of the scheduler.

\* C8: the first pass starts at once, before the ticker exists; every later
\* pass starts by receiving one tick and every received tick starts a pass;
\* a pass starts only when no pass is in progress.
C8_SequentialPasses ==
    /\ [](active \in {0, 1})
    /\ [](pc = "start" => ~ticker /\ tickChan = 0 /\ fired = 0)
    /\ [][active' > active =>
            /\ active = 0
            /\ \/ pc = "start" /\ ~ticker
               \/ pc = "wait" /\ tickChan' = tickChan - 1]_vars
    /\ [][tickChan' < tickChan => active' = active + 1]_vars
    /\ [][pc = "start" /\ pc' # pc => active' = 1]_vars

C8_Witness ==
    /\ active = 1
    /\ pc = "loop"
    /\ ticker
    /\ idx <= Len(samples)

\* C9 as stated: every tick fired while a pass is in progress is kept until
\* a pass is run for it.
C9_NoTickSkipped == pc = "loop" => tickChan = fired

\* C9 amended: of the ticks fired while a pass is in progress one is kept and
\* the others are dropped, and the kept tick starts a pass once the current
\* pass has returned.
C9_OneTickKept ==
    /\ pc = "loop" => tickChan = (IF fired > 0 THEN 1 ELSE 0)
    /\ alive /\ pc = "wait" /\ tickChan > 0 =>
           ENABLED (\E queryOk \in BOOLEAN : TickPass(queryOk))

C9_Witness ==
    /\ alive
    /\ pc = "loop"
    /\ fired = 2
    /\ tickChan = 1

-----------------------------------------------------------------------------
\* Properties of one pass.

\* The pass that ran last has returned.
PassReturned == pc = "wait"

\* C10 as stated: in a pass every specimen of the pending list has updateOne
\* run once and the portal called once.
C10_OncePerSpecimen ==
    PassReturned =>
        \A i \in 1..Len(samples) : calls[i] = [ran |-> 1, posted |-> 1]

\* The rows of the table that are pending.
PendingRows(rows) ==
    {rows[i] : i \in {k \in 1..Len(rows) :
                        Contains(ToLower(rows[k].results.String), "pending")}}

\* C10 amended: a pass whose query succeeds reads exactly the pending rows;
\* no specimen is attempted or looked up twice in a pass; when the pass
\* returns every specimen of its list has been attempted once, with one
\* portal call if the roster scan finds a date of birth for its holder and
\* none otherwise.
C10_OncePerSpecimenInRoster ==
    /\ [][FirstPass(TRUE) \/ TickPass(TRUE) =>
            /\ {samples'[j] : j \in 1..Len(samples')} = PendingRows(db)
            /\ \A j, k \in 1..Len(samples') :
                   samples'[j] = samples'[k] => j = k]_vars
    /\ [](Len(calls) = Len(samples))
    /\ [](\A i \in 1..Len(calls) :
            /\ calls[i].ran <= 1
            /\ calls[i].posted <= calls[i].ran
            /\ ~HasDob(samples[i].name) => calls[i].posted = 0)
    /\ [](PassReturned =>
            \A i \in 1..Len(samples) :
                /\ calls[i].ran = 1
                /\ calls[i].posted = (IF HasDob(samples[i].name) THEN 1 ELSE 0))

C10_Witness ==
    /\ PassReturned
    /\ Len(samples) = 2
    /\ calls[1] = [ran |-> 1, posted |-> 0]
    /\ calls[2] = [ran |-> 1, posted |-> 1]

-----------------------------------------------------------------------------
\* Properties of getAllTDs.

\* Whether the first n tokens leave a td element open: a td start tag
\* opens one, a td end tag closes it.
RECURSIVE InsideTd(_, _)
InsideTd(tokens, n) ==
    IF n = 0 THEN FALSE
    ELSE IF tokens[n].Type = "StartTag" /\ tokens[n].Data = "td" THEN TRUE
    ELSE IF tokens[n].Type = "EndTag" /\ tokens[n].Data = "td" THEN FALSE
    ELSE InsideTd(tokens, n - 1)

\* The step appends a string to the cells collected.
Emits == ret = NoReturn /\ ret' = NoReturn /\ Len(tdData') = Len(tdData) + 1

\* C11: every string getAllTDs emits is the trimmed, non-empty content of a
\* text token that lies inside a td element, emitted in the order of the
\* document; for the documented page, where every td holds one non-empty
\* text, the output is the list of the cell texts.
C11_EmitsCellTexts ==
    /\ [][Emits =>
            /\ pos' = pos + 1
            /\ html.tokens[pos'].Type = "Text"
            /\ tdData' = Append(tdData, TrimSpace(html.tokens[pos'].Data))
            /\ TrimSpace(html.tokens[pos'].Data) # ""
            /\ InsideTd(html.tokens, pos)]_vars
    /\ [](html.tokens = DocumentedPage /\ ret # NoReturn /\ ret.err = "nil" =>
            ret.data = <<"a", "H1", "H2", "2024-01-01">>)

-----------------------------------------------------------------------------
\* Properties of the server under fair scheduling.

\* Row i of the table holds the pending sentinel.
RowPending(i) == i <= Len(db) /\ db[i].results = NullString("pending")

\* Row i has been committed, the process has been terminated, or the
\* model's clock readings are used up.
CommittedOrOver(i) ==
    \/ i <= Len(db) /\ Resolved(db[i])
    \/ ~alive
    \/ clock = MaxClock

\* C12: a pending specimen whose holder is in the roster, and for which the
\* portal again and again answers with a page the parser renders, is
\* eventually committed as resolved (unless the process is terminated).
C12_EventuallyCommitted ==
    \A i \in 1..MaxRows :
        (RowPending(i) /\ InRoster(db[i].name)) ~> CommittedOrOver(i)

\* The same for the holders whose first roster entry has a date of birth.
C12_EventuallyCommittedWithDob ==
    \A i \in 1..MaxRows :
        (RowPending(i) /\ HasDob(db[i].name)) ~> CommittedOrOver(i)

\* C13: getAllTDs is a function of the token stream: each call returns what
\* the stream alone determines, and a second call on the same stream returns
\* the same cells and the same error as the first, whatever the first left.
C13_PureExtractor ==
    /\ ret # NoReturn => ret = getAllTDs(html.tokens, html.tokErr)
    /\ run = 2 /\ ret # NoReturn => ret = firstRet

\* The second call has returned cells although the first call ended with
\* the capturing flag set.
C13_Witness ==
    /\ run = 2
    /\ ret # NoReturn
    /\ ret = firstRet
    /\ ret.data # <<>>
    /\ grabText
    /\ html.tokens[1].Type = "Text"

\* The td start tags among the first n tokens.
RECURSIVE TdStarts(_, _)
TdStarts(tokens, n) ==
    IF n = 0 THEN 0
    ELSE TdStarts(tokens, n - 1)
            + (IF tokens[n] = StartTag("td") THEN 1 ELSE 0)

\* A turn of the loop reads the next token.
ReadsToken == ret = NoReturn /\ ret' = NoReturn /\ pos' = pos + 1

\* C14: the capturing flag starts false, becomes true on each td start tag,
\* stays true across text tokens that are empty after trimming, and is reset
\* to false exactly when a non-empty text is emitted; so the strings emitted
\* never outnumber the td start tags seen so far, and nothing is emitted
\* before the first td start tag.
C14_CapturingFlag ==
    /\ [](pos = 0 /\ ret = NoReturn => ~grabText /\ tdData = <<>>)
    /\ [][ReadsToken =>
            LET token == html.tokens[pos']
            IN  /\ token = StartTag("td") => grabText'
                /\ token.Type = "Text" /\ TrimSpace(token.Data) = "" =>
                       grabText' = grabText /\ tdData' = tdData
                /\ (grabText' # grabText) =>
                       \/ token = StartTag("td") /\ grabText'
                       \/ Emits /\ ~grabText'
                /\ Emits => grabText /\ ~grabText'
                /\ Emits \/ tdData' = tdData]_vars
    /\ [](Len(tdData) <= TdStarts(html.tokens, pos))
    /\ [](TdStarts(html.tokens, pos) = 0 => tdData = <<>>)

\* A td start tag, a blank text and a text have been read: the flag held
\* across the blank text and the text was emitted.
C14_Witness ==
    /\ pos = 3
    /\ html.tokens[1] = StartTag("td")
    /\ html.tokens[2] = Text(" ")
    /\ html.tokens[3] = Text(" b ")
    /\ tdData = <<"b">>
    /\ ~grabText

-----------------------------------------------------------------------------
\* Properties of the roster scan (checked under SpecRoster).

\* The positions of the roster entries whose name is the holder's.
Namesakes == {k \in 1..Len(roster) : roster[k].Name = holder}

\* C16: identity resolution returns the date_of_birth of the first roster
\* entry whose name equals the holder name, and signals NoMatch (no portal
\* lookup) if and only if no roster entry has that name.
C16_FirstMatchOrNoMatch ==
    lookup # NoLookup =>
        /\ (lookup.next = "NoMatch") <=> (Namesakes = {})
        /\ Namesakes # {} =>
               /\ lookup.next = "PostForm"
               /\ \E k \in Namesakes :
                      /\ \A j \in Namesakes : k <= j
                      /\ lookup.dob = roster[k].DateOfBirth

-----------------------------------------------------------------------------
\* Properties of registrations that run while a pass runs.

\* No two records of the store have the same barcode.
UniqueBarcodes ==
    \A i, j \in 1..Len(db) : db[i].barcode = db[j].barcode => i = j

\* The rowids of the records the running pass read.
Snapshot == {samples[j].rowid : j \in 1..Len(samples)}

\* C19: if every barcode is registered at most once then, however
\* registrations interleave with passes, every commit affects exactly one
\* record and the fatal termination is never reached; a specimen registered
\* after a pass has queried the store is not handled in that pass (the pass
\* keeps its list and leaves every record outside it alone) and is read by
\* the following pass, which is the first to attempt it.
C19_RegistrationDuringPass ==
    /\ [](UniqueBarcodes =>
            alive /\ outcome # "Fatal" /\ num \in {NoUpdate, 1})
    /\ [][UniqueBarcodes /\ CommitStep =>
            /\ num' = 1
            /\ {i \in 1..Len(db) : db'[i] # db[i]} = {samples[idx].rowid}]_vars
    /\ [][pc = "loop" /\ Len(db') > Len(db) =>
            /\ samples' = samples
            /\ idx' = idx
            /\ calls' = calls
            /\ Len(db') \notin Snapshot
            /\ db'[Len(db')].results = NullString("pending")]_vars
    /\ [][pc = "loop" /\ pc' = "loop" /\ UniqueBarcodes =>
            \A i \in (1..Len(db)) \ Snapshot : db'[i] = db[i]]_vars
    /\ [][FirstPass(TRUE) \/ TickPass(TRUE) =>
            \A i \in 1..Len(db) : RowPending(i) => i \in Snapshot']_vars

\* A second barcode was registered while a pass ran on the first: the pass
\* has committed the first record and returned without touching the second,
\* which is still as registered.
C19_Witness ==
    /\ UniqueBarcodes
    /\ pc = "wait"
    /\ Len(samples) = 1
    /\ Len(db) = 2
    /\ outcome = "Committed"
    /\ num = 1
    /\ db[1].updated_time > db[2].created_time
    /\ db[2].results = NullString("pending")
    /\ db[2].updated_time = db[2].created_time

-----------------------------------------------------------------------------
\* Properties of the indices the rendering reads (checked under SpecParse).

\* The indices of the cells that occur in the result text, when every cell
\* is a letter of its own.
InText == {k \in 0..(Len(data) - 1) : Contains(parsed.results, At(data, k))}

\* Every index read is within data, the loop reads neither data[len-2] nor
\* the last cell, and what is stored was read at those indices.
ReadsWithin ==
    LET n == Len(data)
    IN  /\ HeaderReads \cup LoopReads(n, 3) \cup {DateRead(n)} \subseteq 0..(n - 1)
        /\ LoopReads(n, 3) \cap {n - 2, n - 1} = {}
        /\ parsed.sample_date = At(data, DateRead(n))
        /\ data = Lettered(n) => InText = HeaderReads \cup LoopReads(n, 3)

\* C20 as stated: for every cell sequence that passes the length checks,
\* every index read lies within the sequence, the row loop never reads the
\* sample-date cell or the last cell, and neither of them appears in the
\* result text.
C20_DateNeverInText ==
    parsed.class = "Resolved" =>
        LET n == Len(data)
        IN  /\ ReadsWithin
            /\ (HeaderReads \cup LoopReads(n, 3)) \cap {n - 2, n - 1} = {}
            /\ data = Lettered(n) => InText \cap {n - 2, n - 1} = {}

\* C20 amended: every index read lies within the sequence and the row loop
\* never reads the sample-date cell or the last cell; the last cell never
\* appears in the result text, and the sample-date cell appears in it
\* exactly when the length is 4, where it is data[2] of the header.
C20_DateInTextOnlyOfFour ==
    parsed.class = "Resolved" =>
        LET n == Len(data)
        IN  /\ ReadsWithin
            /\ (n - 1) \notin HeaderReads \cup LoopReads(n, 3)
            /\ (n - 2) \in HeaderReads \cup LoopReads(n, 3) <=> n = 4
            /\ data = Lettered(n) =>
                   /\ (n - 1) \notin InText
                   /\ (n - 2) \in InText <=> n = 4

\* Seven lettered cells have been rendered: the loop read data[3] and
\* data[4], and neither the date data[5] nor the last cell is in the text.
C20_Witness ==
    /\ data = Lettered(7)
    /\ parsed.class = "Resolved"
    /\ parsed.results = "b c | d e"
    /\ parsed.sample_date = "f"
    /\ InText = {1, 2, 3, 4}

====
